---- MODULE Spec2Model ----
(***************************************************************************)
(* Survey form application: storage facade over a relational table or a    *)
(* CSV file, token-gated admin views, CSV export.  Two entry points exist: *)
(* app.py (with db.py, psycopg2) and api/index.py (pg8000).  Texts are     *)
(* sequences of one-symbol strings; a field name of the header, a          *)
(* formatted timestamp and the byte-order mark are one symbol each.        *)
(***************************************************************************)
EXTENDS Integers, Sequences, FiniteSets, TLC

MaxSubmits == 1

Threads == {"t1", "t2"}

BOM == "BOM"
CR == "\r"
LF == "\n"
COMMA == ","
QUOTE == "\""
SPACE == " "

Whitespace == {SPACE, CR, LF, "\t"}

NoneVal == <<"None">>
NoneKey == <<"None">>

FIELDNAMES ==
  << <<"JP_submitted_at">>, <<"JP_name">>, <<"JP_phone">>, <<"JP_email">>,
     <<"JP_company">>, <<"JP_position">>, <<"JP_comment">> >>

REQUIRED_FIELDS == <<"name", "phone", "email", "company", "position">>

_DB_COLS == <<"submitted_at", "name", "phone", "email", "company", "position", "comment">>

Range(s) == {s[i] : i \in 1..Len(s)}

IndexOf(s, x) == CHOOSE i \in 1..Len(s) : s[i] = x

(* dict(zip(FIELDNAMES, _DB_COLS)) and its inverse *)
_JP_TO_DB == [k \in Range(FIELDNAMES) |-> _DB_COLS[IndexOf(FIELDNAMES, k)]]

_DB_TO_JP == [c \in Range(_DB_COLS) |-> FIELDNAMES[IndexOf(_DB_COLS, c)]]

(***************************************************************************)
(* str.strip()                                                             *)
(***************************************************************************)
RECURSIVE LStrip(_)
LStrip(s) ==
  IF s = <<>> THEN <<>>
  ELSE IF Head(s) \in Whitespace THEN LStrip(Tail(s)) ELSE s

RECURSIVE RStrip(_)
RStrip(s) ==
  IF s = <<>> THEN <<>>
  ELSE IF s[Len(s)] \in Whitespace THEN RStrip(SubSeq(s, 1, Len(s) - 1)) ELSE s

Strip(s) == RStrip(LStrip(s))

(***************************************************************************)
(* csv.writer, excel dialect, QUOTE_MINIMAL, lineterminator "\r\n"         *)
(***************************************************************************)
RECURSIVE DoubleQuotes(_)
DoubleQuotes(s) ==
  IF s = <<>> THEN <<>>
  ELSE (IF Head(s) = QUOTE THEN <<QUOTE, QUOTE>> ELSE <<Head(s)>>) \o DoubleQuotes(Tail(s))

NeedsQuote(s) == \E i \in 1..Len(s) : s[i] \in {COMMA, QUOTE, CR, LF}

CsvField(v) ==
  IF v = NoneVal THEN <<>>
  ELSE IF NeedsQuote(v) THEN <<QUOTE>> \o DoubleQuotes(v) \o <<QUOTE>>
  ELSE v

RECURSIVE JoinFields(_)
JoinFields(fs) ==
  IF fs = <<>> THEN <<>>
  ELSE IF Len(fs) = 1 THEN CsvField(fs[1])
  ELSE CsvField(fs[1]) \o <<COMMA>> \o JoinFields(Tail(fs))

CsvWriteRow(fs) == JoinFields(fs) \o <<CR, LF>>

(***************************************************************************)
(* csv.DictWriter(fieldnames=FIELDNAMES): extrasaction="raise", restval="" *)
(***************************************************************************)
DictWriterAccepts(d) == DOMAIN d \subseteq Range(FIELDNAMES)

DictToList(d) ==
  [i \in 1..Len(FIELDNAMES) |->
     IF FIELDNAMES[i] \in DOMAIN d THEN d[FIELDNAMES[i]] ELSE <<>>]

DictWriteRow(d) == CsvWriteRow(DictToList(d))

WriteHeader == CsvWriteRow(FIELDNAMES)

(***************************************************************************)
(* Text-mode reading with newline=None: "\r\n" and "\r" become "\n"        *)
(***************************************************************************)
RECURSIVE UniversalNewlines(_)
UniversalNewlines(s) ==
  IF s = <<>> THEN <<>>
  ELSE IF Head(s) = CR
    THEN IF Len(s) >= 2 /\ s[2] = LF
         THEN <<LF>> \o UniversalNewlines(SubSeq(s, 3, Len(s)))
         ELSE <<LF>> \o UniversalNewlines(Tail(s))
    ELSE <<Head(s)>> \o UniversalNewlines(Tail(s))

(* the utf-8-sig decoder drops one leading byte-order mark *)
DecodeSig(s) == IF s # <<>> /\ Head(s) = BOM THEN Tail(s) ELSE s

(***************************************************************************)
(* csv.reader, excel dialect, non-strict.  st is the parser state:         *)
(*   "start"  at the start of a record                                     *)
(*   "field"  at the start of a field (after a delimiter)                  *)
(*   "in"     in an unquoted field                                         *)
(*   "q"      in a quoted field                                            *)
(*   "qq"     after a quote seen inside a quoted field                     *)
(*   "cr"     after a carriage return that ended a record                  *)
(***************************************************************************)
RECURSIVE CsvParse(_, _, _, _, _, _)
CsvParse(s, i, st, fld, row, rows) ==
  IF i > Len(s) THEN
    IF st \in {"start", "cr"} THEN rows
    ELSE Append(rows, Append(row, fld))
  ELSE
    LET c == s[i] IN
    CASE st \in {"start", "cr"} ->
           IF c = LF /\ st = "cr" THEN CsvParse(s, i + 1, "start", <<>>, <<>>, rows)
           ELSE IF c = LF THEN CsvParse(s, i + 1, "start", <<>>, <<>>, Append(rows, <<>>))
           ELSE IF c = CR THEN CsvParse(s, i + 1, "cr", <<>>, <<>>, Append(rows, <<>>))
           ELSE IF c = QUOTE THEN CsvParse(s, i + 1, "q", <<>>, <<>>, rows)
           ELSE IF c = COMMA THEN CsvParse(s, i + 1, "field", <<>>, <<<<>>>>, rows)
           ELSE CsvParse(s, i + 1, "in", <<c>>, <<>>, rows)
      [] st = "field" ->
           IF c = LF THEN CsvParse(s, i + 1, "start", <<>>, <<>>, Append(rows, Append(row, <<>>)))
           ELSE IF c = CR THEN CsvParse(s, i + 1, "cr", <<>>, <<>>, Append(rows, Append(row, <<>>)))
           ELSE IF c = QUOTE THEN CsvParse(s, i + 1, "q", <<>>, row, rows)
           ELSE IF c = COMMA THEN CsvParse(s, i + 1, "field", <<>>, Append(row, <<>>), rows)
           ELSE CsvParse(s, i + 1, "in", <<c>>, row, rows)
      [] st = "in" ->
           IF c = LF THEN CsvParse(s, i + 1, "start", <<>>, <<>>, Append(rows, Append(row, fld)))
           ELSE IF c = CR THEN CsvParse(s, i + 1, "cr", <<>>, <<>>, Append(rows, Append(row, fld)))
           ELSE IF c = COMMA THEN CsvParse(s, i + 1, "field", <<>>, Append(row, fld), rows)
           ELSE CsvParse(s, i + 1, "in", Append(fld, c), row, rows)
      [] st = "q" ->
           IF c = QUOTE THEN CsvParse(s, i + 1, "qq", fld, row, rows)
           ELSE CsvParse(s, i + 1, "q", Append(fld, c), row, rows)
      [] st = "qq" ->
           IF c = QUOTE THEN CsvParse(s, i + 1, "q", Append(fld, QUOTE), row, rows)
           ELSE IF c = COMMA THEN CsvParse(s, i + 1, "field", <<>>, Append(row, fld), rows)
           ELSE IF c = LF THEN CsvParse(s, i + 1, "start", <<>>, <<>>, Append(rows, Append(row, fld)))
           ELSE IF c = CR THEN CsvParse(s, i + 1, "cr", <<>>, <<>>, Append(rows, Append(row, fld)))
           ELSE CsvParse(s, i + 1, "in", Append(fld, c), row, rows)

CsvReader(s) == CsvParse(s, 1, "start", <<>>, <<>>, <<>>)

(***************************************************************************)
(* csv.DictReader: the first row names the fields, blank rows are skipped, *)
(* a short row is padded with None, extra cells go under the key None.     *)
(***************************************************************************)
RECURSIVE Flatten(_)
Flatten(cells) ==
  IF cells = <<>> THEN <<>> ELSE <<"|">> \o Head(cells) \o Flatten(Tail(cells))

LastIndexOf(s, x) == CHOOSE i \in 1..Len(s) : s[i] = x /\ \A j \in (i + 1)..Len(s) : s[j] # x

MakeDict(fn, r) ==
  [k \in Range(fn) \cup (IF Len(r) > Len(fn) THEN {NoneKey} ELSE {}) |->
     IF k \in Range(fn)
     THEN (IF LastIndexOf(fn, k) <= Len(r) THEN r[LastIndexOf(fn, k)] ELSE NoneVal)
     ELSE <<"list">> \o Flatten(SubSeq(r, Len(fn) + 1, Len(r)))]

NotBlank(r) == r # <<>>

DictReader(rows) ==
  IF rows = <<>> THEN <<>>
  ELSE LET data == SelectSeq(Tail(rows), NotBlank)
       IN  [i \in 1..Len(data) |-> MakeDict(rows[1], data[i])]

(* list(csv.DictReader(f)) for f opened in text mode with encoding utf-8-sig *)
ReadCsvFile(data) == DictReader(CsvReader(UniversalNewlines(DecodeSig(data))))

(***************************************************************************)
(* The export: byte-order mark, header, one row per record.  DictWriter    *)
(* raises ValueError on a record with a key outside FIELDNAMES.            *)
(***************************************************************************)
RECURSIVE WriteRows(_)
WriteRows(rows) ==
  IF rows = <<>> THEN <<>> ELSE DictWriteRow(Head(rows)) \o WriteRows(Tail(rows))

ExportRaises(rows) == \E i \in 1..Len(rows) : ~DictWriterAccepts(rows[i])

ExportCsv(rows) == <<BOM>> \o WriteHeader \o WriteRows(rows)

(* a file object opened at offset off writes s over what is there *)
WriteAt(data, off, s) ==
  SubSeq(data, 1, off) \o s \o SubSeq(data, off + Len(s) + 1, Len(data))

(***************************************************************************)
(* Relational rows: {_JP_TO_DB[k]: v} on save, {_DB_TO_JP[col]: val} on    *)
(* load.                                                                   *)
(***************************************************************************)
ToDbRow(d) == [c \in Range(_DB_COLS) |-> d[_DB_TO_JP[c]]]

FromDbRow(r) == [k \in Range(FIELDNAMES) |-> r[_JP_TO_DB[k]]]

SelectAll(tbl) == [i \in 1..Len(tbl) |-> FromDbRow(tbl[i])]

(***************************************************************************)
(* Inputs                                                                  *)
(***************************************************************************)
FormFields == {"name", "phone", "email", "company", "position", "comment"}

CommentInputs == {<<"c", SPACE>>, <<"x", CR, LF, COMMA, QUOTE>>}

Blank(form, f) == [form EXCEPT ![f] = <<>>]

GoodForm(c) ==
  [name |-> <<SPACE, "a">>, phone |-> <<"b">>, email |-> <<"b">>, company |-> <<"b">>,
   position |-> <<"b">>, comment |-> c]

Forms ==
  {GoodForm(c) : c \in CommentInputs}
    \cup {Blank(GoodForm(<<"c", SPACE>>), f) : f \in FormFields \ {"comment"}}
    \cup {[GoodForm(<<"c", SPACE>>) EXCEPT !.name = <<SPACE>>, !.email = <<>>]}

(* datetime.now().strftime(...) *)
Times == {<<"T1">>}

(* secrets.token_urlsafe(32): a fresh value at every call; a thread calls  *)
(* it at most once, since it then creates the file                         *)
TokenUrlsafe(t) == IF t = "t1" THEN <<"k1">> ELSE <<"k2">>

(* os.environ.get("ADMIN_TOKEN"): None when unset *)
EnvTokens == {NoneVal, <<"k1", SPACE>>, <<SPACE>>}

RequestTokens == {<<>>, <<"k1">>, <<"k1", SPACE>>}

AdminOps == {"login", "admin", "csv"}

(***************************************************************************)
(* State                                                                   *)
(***************************************************************************)
VARIABLES
  variant,      \* "app": app.py with db.py; "api": api/index.py
  env_token,    \* the ADMIN_TOKEN environment variable
  boot,         \* position of the module-level initialisation
  init_result,  \* the value init_db / _init_pg is about to return
  use_pg,       \* the module-level flag _use_pg
  conns,        \* owners of the connections that are open
  responses,    \* the relational table, in id order
  csv_file,     \* CSV_FILE
  token_file,   \* TOKEN_FILE
  th,           \* per request thread: position and local variables
  resp,         \* the HTTP exchange completed by the last step, if any
  nsubmits      \* valid submissions accepted so far

vars ==
  <<variant, env_token, boot, init_result, use_pg, conns, responses, csv_file,
    token_file, th, resp, nsubmits>>

Absent == [exists |-> FALSE, data |-> <<>>]

NoRow == [k \in {} |-> <<>>]

NoResult == [ok |-> FALSE, rows |-> <<>>]

Idle ==
  [pc |-> "idle", op |-> "none", tok |-> <<>>, match |-> FALSE,
   row |-> NoRow, bom |-> FALSE, res |-> NoResult]

NoForm == [f \in FormFields |-> <<>>]

NoResp ==
  [op |-> "none", status |-> 0, page |-> "none", form |-> NoForm, values |-> NoForm,
   errors |-> {}, tok |-> <<>>, ret |-> <<>>, match |-> FALSE, loaded |-> NoResult,
   rows |-> <<>>, body |-> <<>>, mail |-> "none"]

Init ==
  /\ variant \in {"app", "api"}
  /\ env_token \in EnvTokens
  /\ boot = "connect"
  /\ init_result = FALSE
  /\ use_pg = FALSE
  /\ conns = {}
  /\ responses = <<>>
  /\ csv_file = Absent
  /\ token_file = Absent
  /\ th = [t \in Threads |-> Idle]
  /\ resp = NoResp
  /\ nsubmits = 0

(***************************************************************************)
(* Module-level initialisation: _use_pg = db.init_db() / _init_pg()        *)
(***************************************************************************)
(* _get_conn / _pg_conn: None without driver or URL, else connect, which   *)
(* raises when the server cannot be reached                                *)
GetConn(driver, url, reachable) ==
  IF ~driver \/ ~url THEN "none"
  ELSE IF reachable THEN "conn" ELSE "raise"

InitConnect ==
  /\ boot = "connect"
  /\ \E driver \in BOOLEAN, url \in BOOLEAN, reachable \in BOOLEAN :
       IF GetConn(driver, url, reachable) = "conn"
       THEN /\ conns' = conns \cup {"main"}
            /\ boot' = "run"
            /\ UNCHANGED use_pg
       ELSE /\ use_pg' = FALSE
            /\ boot' = "up"
            /\ UNCHANGED conns
  /\ resp' = NoResp
  /\ UNCHANGED <<variant, env_token, init_result, responses, csv_file, token_file, th, nsubmits>>

(* CREATE TABLE IF NOT EXISTS responses *)
InitRun ==
  /\ boot = "run"
  /\ \E ok \in BOOLEAN : init_result' = ok
  /\ boot' = "close"
  /\ resp' = NoResp
  /\ UNCHANGED <<variant, env_token, use_pg, conns, responses, csv_file, token_file, th, nsubmits>>

(* finally: conn.close(); the returned value is bound to _use_pg *)
InitClose ==
  /\ boot = "close"
  /\ conns' = conns \ {"main"}
  /\ use_pg' = init_result
  /\ boot' = "up"
  /\ resp' = NoResp
  /\ UNCHANGED <<variant, env_token, init_result, responses, csv_file, token_file, th, nsubmits>>

(***************************************************************************)
(* Responses                                                               *)
(***************************************************************************)
Exchange(t, l) == [NoResp EXCEPT !.op = l.op, !.match = l.match]

ServerError(t, l) == [Exchange(t, l) EXCEPT !.status = 500, !.page = "error"]

Denied(t, l, ret) ==
  [Exchange(t, l) EXCEPT !.status = 403, !.page = "denied", !.tok = l.tok, !.ret = ret,
                         !.match = (l.tok = ret)]

(* rows = load() or []  (relational)  /  rows = load_responses_csv() *)
OrEmpty(res) == IF res.ok THEN res.rows ELSE <<>>

(* render_admin *)
RenderAdmin(t, l, res) ==
  [Exchange(t, l) EXCEPT !.status = 200, !.page = "admin", !.loaded = res,
                         !.rows = OrEmpty(res)]

(* admin_csv after the token check.  app.py with the relational backend    *)
(* sends db.responses_to_csv_string() or ""; every other path writes the   *)
(* rows it loaded through a DictWriter.                                    *)
AdminCsv(t, l, res) ==
  IF variant = "app" /\ use_pg /\ ~res.ok
  THEN [Exchange(t, l) EXCEPT !.status = 200, !.page = "csv", !.loaded = res, !.body = <<>>]
  ELSE IF ExportRaises(OrEmpty(res))
  THEN [ServerError(t, l) EXCEPT !.loaded = res]
  ELSE [Exchange(t, l) EXCEPT !.status = 200, !.page = "csv", !.loaded = res,
                              !.rows = OrEmpty(res), !.body = ExportCsv(OrEmpty(res))]

Render(t, l, res) ==
  IF l.op = "csv" THEN AdminCsv(t, l, res) ELSE RenderAdmin(t, l, res)

(***************************************************************************)
(* POST /submit                                                            *)
(***************************************************************************)
Values(form) == [f \in FormFields |-> Strip(form[f])]

(* the loop over REQUIRED_FIELDS stopping one field early *)
ErrorsSkipLast(values) ==
  {f \in Range(SubSeq(REQUIRED_FIELDS, 1, Len(REQUIRED_FIELDS) - 1)) : values[f] = <<>>}

Errors(values) == {f \in Range(REQUIRED_FIELDS) : values[f] = <<>>}

MakeRow(values, ts) ==
  [k \in Range(FIELDNAMES) |-> IF k = FIELDNAMES[1] THEN ts ELSE values[_JP_TO_DB[k]]]

BackendStart == IF use_pg THEN "pg_connect" ELSE "ens_check"

Submit(t) ==
  /\ boot = "up"
  /\ th[t].pc = "idle"
  /\ \E form \in Forms, ts \in Times :
       LET values == Values(form)
           errors == Errors(values)
       IN  IF errors # {}
           THEN /\ resp' = [NoResp EXCEPT !.op = "submit", !.status = 200,
                                          !.page = "form", !.form = form,
                                          !.values = values, !.errors = errors]
                /\ UNCHANGED <<th, nsubmits>>
           ELSE /\ nsubmits < MaxSubmits
                /\ th' = [th EXCEPT ![t] = [Idle EXCEPT !.pc = BackendStart, !.op = "submit",
                                                        !.row = MakeRow(values, ts)]]
                /\ nsubmits' = nsubmits + 1
                /\ resp' = NoResp
  /\ UNCHANGED <<variant, env_token, boot, init_result, use_pg, conns, responses,
                 csv_file, token_file>>

(* what follows the save in submit: send_confirmation_email, whose result  *)
(* and exceptions are ignored, then redirect(url_for("thanks"))            *)
MailOutcomes == {"skipped", "attempted"}

Thanks(t, l, res, m) ==
  [Exchange(t, l) EXCEPT !.status = 302, !.page = "thanks", !.loaded = res,
                         !.rows = <<l.row>>, !.mail = m]

(***************************************************************************)
(* Admin routes and get_or_create_admin_token                              *)
(***************************************************************************)
(* the comparison replaced by a test that a token was sent *)
AuthorizeAnyToken(t, l, ret) ==
  IF l.tok # <<>>
  THEN /\ th' = [th EXCEPT ![t] = [l EXCEPT !.pc = BackendStart, !.tok = <<>>,
                                            !.match = (l.tok = ret)]]
       /\ resp' = NoResp
  ELSE /\ th' = [th EXCEPT ![t] = Idle]
       /\ resp' = Denied(t, l, ret)

(* token == get_or_create_admin_token(), ret being what the call returned: *)
(* on a match the handler goes on to load the records, else 403            *)
Authorize(t, l, ret) ==
  IF l.tok = ret
  THEN /\ th' = [th EXCEPT ![t] = [l EXCEPT !.pc = BackendStart, !.tok = <<>>,
                                            !.match = (l.tok = ret)]]
       /\ resp' = NoResp
  ELSE /\ th' = [th EXCEPT ![t] = Idle]
       /\ resp' = Denied(t, l, ret)

EnvTokenSet == env_token # NoneVal /\ env_token # <<>>

(* the request arrives; get_or_create_admin_token up to the point where    *)
(* it returns or finds no token file (a file that exists is never removed, *)
(* so the check and the read that follows it are one step)                 *)
AdminRequest(t) ==
  /\ boot = "up"
  /\ th[t].pc = "idle"
  /\ \E op \in AdminOps, raw \in RequestTokens :
       /\ op # "login" => raw # <<>>
       /\ LET l == [Idle EXCEPT !.op = op,
                                !.tok = IF op = "login" THEN Strip(raw) ELSE raw]
          IN  IF EnvTokenSet
              THEN Authorize(t, l, Strip(env_token))
              ELSE IF token_file.exists
              THEN Authorize(t, l, Strip(token_file.data))
              ELSE /\ th' = [th EXCEPT ![t] = [l EXCEPT !.pc = "tok_open"]]
                   /\ resp' = NoResp
  /\ UNCHANGED <<variant, env_token, boot, init_result, use_pg, conns, responses,
                 csv_file, token_file, nsubmits>>

(* token = secrets.token_urlsafe(32); open(TOKEN_FILE, "w") truncates *)
TokenOpen(t) ==
  /\ th[t].pc = "tok_open"
  /\ th' = [th EXCEPT ![t].pc = "tok_write"]
  /\ token_file' = [exists |-> TRUE, data |-> <<>>]
  /\ resp' = NoResp
  /\ UNCHANGED <<variant, env_token, boot, init_result, use_pg, conns, responses,
                 csv_file, nsubmits>>

(* f.write(token) reaches the file when the with block closes it *)
TokenWrite(t) ==
  /\ th[t].pc = "tok_write"
  /\ token_file' = [exists |-> TRUE, data |-> WriteAt(token_file.data, 0, TokenUrlsafe(t))]
  /\ Authorize(t, th[t], TokenUrlsafe(t))
  /\ UNCHANGED <<variant, env_token, boot, init_result, use_pg, conns, responses,
                 csv_file, nsubmits>>

(***************************************************************************)
(* CSV backend: ensure_csv, save_response_csv, load_responses_csv          *)
(***************************************************************************)
(* open(CSV_FILE, "a", encoding="utf-8-sig"): the encoder emits a          *)
(* byte-order mark only if the file is empty when it is opened             *)
DoAppendOpen(t) ==
  /\ th' = [th EXCEPT ![t] = [@ EXCEPT !.pc = "app_write", !.bom = (csv_file.data = <<>>)]]
  /\ resp' = NoResp

(* list(csv.DictReader(f)), then the page or the export is produced *)
DoCsvRead(t) ==
  /\ resp' = Render(t, th[t], [ok |-> TRUE, rows |-> ReadCsvFile(csv_file.data)])
  /\ th' = [th EXCEPT ![t] = Idle]

AfterEnsure(t) == IF th[t].op = "submit" THEN DoAppendOpen(t) ELSE DoCsvRead(t)

(* ensure_csv: os.makedirs(DATA_DIR, exist_ok=True); if the file exists    *)
(* (it is never removed once it does) the caller's open follows            *)
EnsureCheck(t) ==
  /\ th[t].pc = "ens_check"
  /\ IF csv_file.exists
     THEN AfterEnsure(t)
     ELSE /\ th' = [th EXCEPT ![t].pc = "ens_open"]
          /\ resp' = NoResp
  /\ UNCHANGED <<variant, env_token, boot, init_result, use_pg, conns, responses,
                 csv_file, token_file, nsubmits>>

(* open(CSV_FILE, "w", ...) creates or truncates the file *)
EnsureOpen(t) ==
  /\ th[t].pc = "ens_open"
  /\ csv_file' = [exists |-> TRUE, data |-> <<>>]
  /\ th' = [th EXCEPT ![t].pc = "ens_write"]
  /\ resp' = NoResp
  /\ UNCHANGED <<variant, env_token, boot, init_result, use_pg, conns, responses,
                 token_file, nsubmits>>

(* writer.writeheader() reaches the file, from offset 0, when it is closed *)
EnsureWrite(t) ==
  /\ th[t].pc = "ens_write"
  /\ csv_file' = [exists |-> TRUE, data |-> WriteAt(csv_file.data, 0, <<BOM>> \o WriteHeader)]
  /\ th' = [th EXCEPT ![t].pc = "ensured"]
  /\ resp' = NoResp
  /\ UNCHANGED <<variant, env_token, boot, init_result, use_pg, conns, responses,
                 token_file, nsubmits>>

(* the caller's open after an ensure_csv that created the file *)
Ensured(t) ==
  /\ th[t].pc = "ensured"
  /\ AfterEnsure(t)
  /\ UNCHANGED <<variant, env_token, boot, init_result, use_pg, conns, responses,
                 csv_file, token_file, nsubmits>>

(* writer.writerow(data) reaches the end of the file when it is closed; an *)
(* OSError is not caught by save_response_csv nor by submit                *)
AppendWrite(t) ==
  /\ th[t].pc = "app_write"
  /\ \E ok \in BOOLEAN :
       IF ok
       THEN /\ csv_file' = [exists |-> TRUE,
                            data |-> csv_file.data
                                       \o (IF th[t].bom THEN <<BOM>> ELSE <<>>)
                                       \o DictWriteRow(th[t].row)]
            /\ th' = [th EXCEPT ![t] = Idle]
            /\ \E m \in MailOutcomes : resp' = Thanks(t, th[t], [ok |-> TRUE, rows |-> <<>>], m)
       ELSE /\ th' = [th EXCEPT ![t] = Idle]
            /\ resp' = ServerError(t, th[t])
            /\ UNCHANGED csv_file
  /\ UNCHANGED <<variant, env_token, boot, init_result, use_pg, conns, responses,
                 token_file, nsubmits>>

(***************************************************************************)
(* Relational backend: save_response / _pg_save, load_responses / _pg_load *)
(***************************************************************************)
(* db.py calls _get_conn() outside its try block; api/index.py inside one  *)
ConnectErrorEscapes == variant = "app"

(* a connection failure that clears the flag, so that later requests use   *)
(* the CSV file                                                            *)
PgConnectFallback(t) ==
  /\ th[t].pc = "pg_connect"
  /\ \E reachable \in BOOLEAN :
       LET c == GetConn(TRUE, TRUE, reachable)
       IN  IF c = "conn"
           THEN /\ conns' = conns \cup {t}
                /\ th' = [th EXCEPT ![t].pc = "pg_run"]
                /\ resp' = NoResp
                /\ UNCHANGED use_pg
           ELSE IF c = "raise" /\ ConnectErrorEscapes
           THEN /\ th' = [th EXCEPT ![t] = Idle]
                /\ resp' = ServerError(t, th[t])
                /\ UNCHANGED conns
                /\ use_pg' = FALSE
           ELSE IF th[t].op = "submit"
           THEN /\ th' = [th EXCEPT ![t] = Idle]
                /\ \E m \in MailOutcomes : resp' = Thanks(t, th[t], NoResult, m)
                /\ UNCHANGED conns
                /\ use_pg' = FALSE
           ELSE /\ th' = [th EXCEPT ![t] = Idle]
                /\ resp' = Render(t, th[t], NoResult)
                /\ UNCHANGED conns
                /\ use_pg' = FALSE
  /\ UNCHANGED <<variant, env_token, boot, init_result, responses, csv_file,
                 token_file, nsubmits>>

(* conn = _get_conn() / _pg_conn() *)
PgConnect(t) ==
  /\ th[t].pc = "pg_connect"
  /\ \E reachable \in BOOLEAN :
       LET c == GetConn(TRUE, TRUE, reachable)
       IN  IF c = "conn"
           THEN /\ conns' = conns \cup {t}
                /\ th' = [th EXCEPT ![t].pc = "pg_run"]
                /\ resp' = NoResp
           ELSE IF c = "raise" /\ ConnectErrorEscapes
           THEN /\ th' = [th EXCEPT ![t] = Idle]
                /\ resp' = ServerError(t, th[t])
                /\ UNCHANGED conns
           ELSE IF th[t].op = "submit"
           THEN /\ th' = [th EXCEPT ![t] = Idle]
                /\ \E m \in MailOutcomes : resp' = Thanks(t, th[t], NoResult, m)
                /\ UNCHANGED conns
           ELSE /\ th' = [th EXCEPT ![t] = Idle]
                /\ resp' = Render(t, th[t], NoResult)
                /\ UNCHANGED conns
  /\ UNCHANGED <<variant, env_token, boot, init_result, use_pg, responses, csv_file,
                 token_file, nsubmits>>

(* the INSERT or the SELECT ... ORDER BY id; any exception gives False/None *)
PgRun(t) ==
  /\ th[t].pc = "pg_run"
  /\ \E ok \in BOOLEAN :
       IF th[t].op = "submit"
       THEN /\ responses' = IF ok THEN Append(responses, ToDbRow(th[t].row)) ELSE responses
            /\ th' = [th EXCEPT ![t] = [@ EXCEPT !.pc = "pg_close",
                                                 !.res = [ok |-> ok, rows |-> <<>>]]]
       ELSE /\ th' = [th EXCEPT ![t] = [@ EXCEPT !.pc = "pg_close",
                                                 !.res = IF ok
                                                         THEN [ok |-> TRUE, rows |-> SelectAll(responses)]
                                                         ELSE NoResult]]
            /\ UNCHANGED responses
  /\ resp' = NoResp
  /\ UNCHANGED <<variant, env_token, boot, init_result, use_pg, conns, csv_file,
                 token_file, nsubmits>>

(* conn.close() at the end of the try body instead of in a finally block *)
PgCloseInTry(t) ==
  /\ th[t].pc = "pg_close"
  /\ conns' = IF th[t].res.ok THEN conns \ {t} ELSE conns
  /\ IF th[t].op = "submit"
     THEN /\ th' = [th EXCEPT ![t] = Idle]
          /\ \E m \in MailOutcomes : resp' = Thanks(t, th[t], th[t].res, m)
     ELSE /\ th' = [th EXCEPT ![t] = Idle]
          /\ resp' = Render(t, th[t], th[t].res)
  /\ UNCHANGED <<variant, env_token, boot, init_result, use_pg, responses, csv_file,
                 token_file, nsubmits>>

(* finally: conn.close(), then the caller goes on with the result *)
PgClose(t) ==
  /\ th[t].pc = "pg_close"
  /\ conns' = conns \ {t}
  /\ IF th[t].op = "submit"
     THEN /\ th' = [th EXCEPT ![t] = Idle]
          /\ \E m \in MailOutcomes : resp' = Thanks(t, th[t], th[t].res, m)
     ELSE /\ th' = [th EXCEPT ![t] = Idle]
          /\ resp' = Render(t, th[t], th[t].res)
  /\ UNCHANGED <<variant, env_token, boot, init_result, use_pg, responses, csv_file,
                 token_file, nsubmits>>

(***************************************************************************)
(* Specification                                                           *)
(***************************************************************************)
Next ==
  \/ InitConnect
  \/ InitRun
  \/ InitClose
  \/ \E t \in Threads :
       \/ Submit(t)
       \/ AdminRequest(t)
       \/ TokenOpen(t)
       \/ TokenWrite(t)
       \/ EnsureCheck(t)
       \/ EnsureOpen(t)
       \/ EnsureWrite(t)
       \/ Ensured(t)
       \/ AppendWrite(t)
       \/ PgConnect(t)
       \/ PgRun(t)
       \/ PgClose(t)

Spec == Init /\ [][Next]_vars

(***************************************************************************)
(* Properties                                                              *)
(***************************************************************************)
(* what the load operation of the active backend returns when it succeeds *)
Stored == IF use_pg THEN SelectAll(responses) ELSE ReadCsvFile(csv_file.data)

IsPrefix(a, b) == Len(a) <= Len(b) /\ \A i \in 1..Len(a) : a[i] = b[i]

SubmittedKeys == Range(FIELDNAMES) \ {FIELDNAMES[1]}

SameSubmitted(r, row) ==
  /\ SubmittedKeys \subseteq DOMAIN r
  /\ \A k \in SubmittedKeys : r[k] = row[k]

(* the step on which the save operation of thread t's submit ends *)
SaveEnds(t) ==
  /\ th[t].op = "submit"
  /\ th[t].pc \in {"pg_connect", "pg_run", "app_write"}
  /\ th'[t].pc \in {"pg_close", "idle"}

(* the step on which the save of thread t writes its record *)
SaveWrites(t) ==
  /\ th[t].op = "submit"
  /\ \/ th[t].pc = "pg_run" /\ responses' # responses
     \/ th[t].pc = "app_write" /\ csv_file' # csv_file

Observable(r) == <<r.status, r.page, r.rows, r.body>>

PgPcs == {"pg_connect", "pg_run", "pg_close"}

CsvPcs == {"ens_check", "ens_open", "ens_write", "ensured", "app_write"}

(* C1: when the save of a valid submission ends, the records the load      *)
(* operation reads back are one more than before it, and the new record    *)
(* has the submitted, stripped values.                                     *)
C1_SubmitPersistsOne ==
  [][\A t \in Threads :
       SaveEnds(t) =>
         /\ Len(Stored') = Len(Stored) + 1
         /\ SameSubmitted(Stored'[Len(Stored')], th[t].row)]_vars

(* C2 as stated: a submission with a missing or empty required field       *)
(* persists nothing, sends no mail, and the form comes back with the       *)
(* values as entered and an error for exactly the fields that are empty.   *)
C2_AsEntered ==
  [][resp'.page = "form" =>
       /\ UNCHANGED <<responses, csv_file, nsubmits, th>>
       /\ resp'.mail = "none"
       /\ resp'.values = resp'.form
       /\ resp'.errors = {f \in Range(REQUIRED_FIELDS) : resp'.form[f] = <<>>}]_vars

(* C2 amended: a submission with a required field that is empty after      *)
(* stripping whitespace persists nothing, sends no mail, and the form      *)
(* comes back with the stripped values and an error for exactly the        *)
(* required fields that are empty after stripping; every other submission  *)
(* is accepted.                                                            *)
C2_Stripped ==
  [][/\ resp'.page = "form" =>
          /\ UNCHANGED <<responses, csv_file, nsubmits, th>>
          /\ resp'.mail = "none"
          /\ \A f \in FormFields : resp'.values[f] = Strip(resp'.form[f])
          /\ resp'.errors = {f \in Range(REQUIRED_FIELDS) : Strip(resp'.form[f]) = <<>>}
          /\ resp'.errors # {}
     /\ \A t \in Threads :
          th'[t].op = "submit" =>
            \A k \in SubmittedKeys \ {FIELDNAMES[7]} : th'[t].row[k] # <<>>]_vars

C2_Witness ==
  /\ resp.page = "form"
  /\ resp.form.name = <<SPACE>>
  /\ resp.errors = {"name", "email"}

(* C3: records are loaded, listed or exported only for a request whose     *)
(* token equals the one get_or_create_admin_token returned; any other      *)
(* request gets 403 and no record data.                                    *)
C3_TokenGate ==
  /\ \A t \in Threads : th[t].op \in AdminOps /\ th[t].pc \in PgPcs \cup CsvPcs => th[t].match
  /\ resp.op \in AdminOps /\ resp.page \in {"admin", "csv", "error"} => resp.match
  /\ resp.op \in AdminOps /\ ~resp.match =>
       /\ resp.status = 403
       /\ resp.page = "denied"
       /\ resp.tok # resp.ret
       /\ resp.rows = <<>>
       /\ resp.body = <<>>

C3_Witness ==
  /\ resp.page = "denied"
  /\ resp.op = "csv"
  /\ resp.ret = <<"k2">>
  /\ Stored # <<>>

(* C4: a valid submission never ends in an error response: a failing save  *)
(* is reported as a boolean and the redirect follows.                      *)
C4_SaveNeverRaises == resp.op = "submit" => resp.status # 500

(* C5: when the store cannot be read, no exception escapes and what the    *)
(* admin list or the export shows differs from what it shows for a         *)
(* readable store without records.                                         *)
C5_UnavailableDistinct ==
  resp.op \in AdminOps /\ resp.match /\ ~resp.loaded.ok =>
    /\ resp.status # 500
    /\ Observable(resp)
         # Observable(Render("t1", [Idle EXCEPT !.op = resp.op, !.match = TRUE],
                             [ok |-> TRUE, rows |-> <<>>]))

(* C6: the export is a byte-order mark, the header row of the seven field  *)
(* names, and one row per record the load returned, in order; read back as *)
(* CSV it gives the header and the loaded records.                         *)
C6_ExportRoundTrip ==
  resp.page = "csv" =>
    /\ resp.body = <<BOM>> \o WriteHeader \o WriteRows(resp.rows)
    /\ LET parsed == CsvReader(DecodeSig(resp.body))
       IN  /\ Len(parsed) = 1 + Len(resp.rows)
           /\ parsed[1] = FIELDNAMES
           /\ \A i \in 1..Len(resp.rows) : MakeDict(FIELDNAMES, parsed[i + 1]) = resp.rows[i]

(* C7: with ADMIN_TOKEN set the token file is never created; and two calls *)
(* of get_or_create_admin_token, here two that end one after the other in  *)
(* a refusal, return the same token.                                       *)
C7_SameToken ==
  [][/\ EnvTokenSet => ~token_file'.exists
     /\ resp.page = "denied" /\ resp'.page = "denied" => resp'.ret = resp.ret]_vars

C9_AppendOnly ==
  [][/\ IsPrefix(Stored, Stored')
     /\ \A t \in Threads : SaveWrites(t) => Stored' = Append(Stored, th[t].row)]_vars

(* C10: a connection is open exactly while its operation is between its    *)
(* connect and its close: every operation that has ended has closed the    *)
(* one it opened, and each operation in progress holds its own.            *)
C10_ConnectionScoped ==
  /\ \A t \in Threads : t \in conns <=> th[t].pc \in {"pg_run", "pg_close"}
  /\ "main" \in conns <=> boot \in {"run", "close"}

C10_Witness ==
  /\ resp.page = "thanks"
  /\ use_pg
  /\ ~resp.loaded.ok
  /\ conns = {}
  /\ responses = <<>>
  /\ nsubmits = MaxSubmits

(* C11: in the CSV backend the file, once it holds anything, starts with   *)
(* the byte-order mark and the header row; what it holds is never removed  *)
(* or overwritten (it only grows at the end); and a save's write appends   *)
(* exactly the one row of its record.                                      *)
C11_CsvFileIntact ==
  [][/\ csv_file'.data # <<>> => IsPrefix(<<BOM>> \o WriteHeader, csv_file'.data)
     /\ IsPrefix(csv_file.data, csv_file'.data)
     /\ \A t \in Threads :
          th[t].pc = "app_write" /\ csv_file' # csv_file =>
            csv_file'.data = csv_file.data \o DictWriteRow(th[t].row)]_vars

(* what get_or_create_admin_token returns to thread t when it is called    *)
(* and runs to its end in the current state                                *)
ReturnedToken(t) ==
  IF EnvTokenSet THEN Strip(env_token)
  ELSE IF token_file.exists THEN Strip(token_file.data)
  ELSE TokenUrlsafe(t)

(* C12: get_or_create_admin_token never returns the empty string: a        *)
(* refusal never reports an empty returned token, and a POST /admin that   *)
(* is granted access was not compared with an empty one (so its own token  *)
(* field was not blank).                                                   *)
C12_TokenNeverEmpty ==
  [][/\ resp'.page = "denied" => resp'.ret # <<>>
     /\ \A t \in Threads :
          th[t].pc = "idle" /\ th'[t].op = "login" /\ th'[t].match =>
            ReturnedToken(t) # <<>>]_vars

====
